---- MODULE Spec2Model ----
(***************************************************************************)
(* PTT API (src/main.py): a FastAPI service wrapping the external          *)
(* parse_title function.  The model keeps, per worker, the frame of the    *)
(* request handler it is running (its arguments, its local `results`, the  *)
(* loop position) and the response it produced; the external parser is a   *)
(* fixed but arbitrary function of (title, translate_languages).           *)
(*                                                                         *)
(* Optional[X] values are modelled as sets of at most one element:         *)
(* None is {} and a present value x is {x}.  A mapping (dict) is a set of  *)
(* <<key, value>> pairs, so the empty dict {} is present as {{}}.          *)
(***************************************************************************)
EXTENDS Integers, Sequences, FiniteSets, TLC

VARIABLES parser, frames

vars == <<parser, frames>>

(***************************************************************************)
(* Bounds of the model.                                                    *)
(***************************************************************************)
\* Longest titles list of a batch request.
MaxTitles == 3

\* Longest titles list of a batch request when two requests run at once.
MaxTitlesConcurrent == 2

\* Workers that may each run one request handler at a time.
Workers == {"w1", "w2"}

(***************************************************************************)
(* Data.                                                                   *)
(***************************************************************************)
None == {}

Some(x) == {x}

\* The built-in sample titles of GET /examples, in their fixed order.
examples ==
    << "The.Simpsons.S01E01.1080p.BluRay.x265.HEVC.10bit.AAC.5.1.Tigole",
       "www.Tamilblasters.party - The Wheel of Time (2021) Season 01 EP(01-08) [720p HQ HDRip - [Tam + Tel + Hin] - DDP5.1 - x264 - 2.7GB - ESubs]",
       "The.Walking.Dead.S06E07.SUBFRENCH.HDTV.x264-AMB3R.mkv",
       "Avengers.Endgame.2019.2160p.UHD.BluRay.x265.HDR.Atmos-TERMINAL",
       "Game.of.Thrones.S08E06.The.Iron.Throne.1080p.AMZN.WEB-DL.DDP5.1.H.264-GoT" >>

ExampleTitles == {examples[n] : n \in 1..Len(examples)}

\* Titles that clients send: two of the titles the test script sends.
Titles == {examples[1], examples[3]}

\* Every (title, translate_languages) pair the parser is invoked with.
\* get_examples calls parse_title(example), i.e. with the default flag.
RequestKeys == Titles \X BOOLEAN

ExampleKeys == ExampleTitles \X {FALSE}

AllKeys == RequestKeys \cup ExampleKeys

\* What one invocation of the external parser does: it returns a value
\* (a mapping, possibly empty, or null) or raises; `message` is str(e).
Returns(value) == [raised |-> FALSE, value |-> value, message |-> ""]

Raises(message) == [raised |-> TRUE, value |-> None, message |-> message]

ParsedFields == {<<"title", "parsed">>, <<"resolution", "1080p">>}

Outcomes ==
    { Returns(Some(ParsedFields)), Returns(Some({})), Returns(None),
      Raises("boom"), Raises("") }

\* The smaller set used where two requests run at once.
OutcomesConcurrent == { Returns(Some(ParsedFields)), Raises("boom") }

\* The parsers that vary over `keys` with results in `outs` and return the
\* parsed fields everywhere else.
ParsersOver(keys, outs) ==
    { [k \in AllKeys |-> IF k \in keys THEN q[k] ELSE Returns(Some(ParsedFields))] :
        q \in [keys -> outs] }

\* from PTT import parse_title: the external, deterministic parser.
parse_title(p, title, translate_languages) == p[<<title, translate_languages>>]

\* class ParseResponse(BaseModel); data and error default to None.
ParseResponse(success, data, error, original_title) ==
    [success |-> success, data |-> data, error |-> error,
     original_title |-> original_title]

\* class BatchParseResponse(BaseModel)
BatchParseResponse(success, results, total_processed) ==
    [success |-> success, results |-> results,
     total_processed |-> total_processed]

\* class HealthResponse(BaseModel)
HealthResponse(status, service, version) ==
    [status |-> status, service |-> service, version |-> version]

\* A handler's returned value, sent with status 200.
Ok(shape, body) == [status_code |-> 200, shape |-> shape, body |-> body]

\* raise HTTPException(status_code=..., detail=...)
HTTPException(status_code, detail) ==
    [status_code |-> status_code, shape |-> "HTTPException",
     body |-> [detail |-> detail]]

\* Query(..., min_length=1) rejects the request before the handler runs.
RequestValidationError ==
    [status_code |-> 422, shape |-> "RequestValidationError",
     body |-> [detail |-> "string_too_short"]]

(***************************************************************************)
(* Frames: the handler invocation a worker is running.                     *)
(*   pc        "idle", "loop" (at the for statement), "done" (returned)    *)
(*   i         index of the next element the for loop takes                *)
(*   results   the handler's local list                                    *)
(*   calls     the parse_title invocations made so far, in order           *)
(*   response  the HTTP response, once the handler has returned            *)
(***************************************************************************)
IdleFrame ==
    [pc |-> "idle", endpoint |-> "", titles |-> <<>>,
     translate_languages |-> FALSE, i |-> 0, results |-> <<>>,
     calls |-> <<>>, response |-> None]

NewFrame(endpoint, titles, translate_languages) ==
    [pc |-> "loop", endpoint |-> endpoint, titles |-> titles,
     translate_languages |-> translate_languages, i |-> 1, results |-> <<>>,
     calls |-> <<>>, response |-> None]

Returned(f, calls, response) ==
    [f EXCEPT !.pc = "done", !.calls = calls, !.response = Some(response)]

Response(f) == CHOOSE r \in f.response : TRUE

(***************************************************************************)
(* The handlers, as functions of the parser and the request.               *)
(***************************************************************************)
\* async def health_check()
health_check == Ok("HealthResponse", HealthResponse("healthy", "PTT API", "1.0.0"))

\* Mutant: GET /parse propagates the failure as GET /parse-simple does.
parse_torrent_title_Propagates(p, title, translate_languages) ==
    LET result == parse_title(p, title, translate_languages)
    IN  IF ~result.raised
        THEN Ok("ParseResponse", ParseResponse(TRUE, result.value, None, title))
        ELSE HTTPException(500, result.message)

\* async def parse_torrent_title(title, translate_languages): GET /parse
parse_torrent_title(p, title, translate_languages) ==
    LET result == parse_title(p, title, translate_languages)
    IN  IF ~result.raised
        THEN Ok("ParseResponse", ParseResponse(TRUE, result.value, None, title))
        ELSE Ok("ParseResponse",
                ParseResponse(FALSE, None, Some(result.message), title))

\* Mutant: GET /parse-simple captures the failure as GET /parse does.
parse_torrent_title_simple_Structured(p, title, translate_languages) ==
    LET result == parse_title(p, title, translate_languages)
    IN  IF ~result.raised
        THEN Ok("raw", result.value)
        ELSE Ok("ParseResponse",
                ParseResponse(FALSE, None, Some(result.message), title))

\* async def parse_torrent_title_simple(...): GET /parse-simple
parse_torrent_title_simple(p, title, translate_languages) ==
    LET result == parse_title(p, title, translate_languages)
    IN  IF ~result.raised
        THEN Ok("raw", result.value)
        ELSE HTTPException(500, result.message)

\* Mutant: a failed item keeps an empty `data` placeholder beside its error.
BatchItem_DataOnFailure(p, title, translate_languages) ==
    LET parsed == parse_title(p, title, translate_languages)
    IN  IF ~parsed.raised
        THEN ParseResponse(TRUE, parsed.value, None, title)
        ELSE ParseResponse(FALSE, Some({}), Some(parsed.message), title)

\* The body of the for loop of parse_batch_titles for one title.
BatchItem(p, title, translate_languages) ==
    LET parsed == parse_title(p, title, translate_languages)
    IN  IF ~parsed.raised
        THEN ParseResponse(TRUE, parsed.value, None, title)
        ELSE ParseResponse(FALSE, None, Some(parsed.message), title)

\* The body of the for loop of get_examples for one sample title.
ExampleEntry(p, example) ==
    LET parsed == parse_title(p, example, FALSE)
    IN  IF ~parsed.raised
        THEN [title |-> example, parsed |-> parsed.value]
        ELSE [title |-> example, error |-> parsed.message]

\* Mutant: a failed item is logged and left out of `results`.
parse_batch_titles_iteration_SkipFailed(p, f) ==
    LET title == f.titles[f.i]
        item == BatchItem(p, title, f.translate_languages)
    IN  [f EXCEPT !.results = IF item.success THEN Append(@, item) ELSE @,
                  !.calls = Append(@, <<title, f.translate_languages>>),
                  !.i = @ + 1]

\* Mutant: each result is inserted at the front of `results`.
parse_batch_titles_iteration_Prepend(p, f) ==
    LET title == f.titles[f.i]
    IN  [f EXCEPT !.results = <<BatchItem(p, title, f.translate_languages)>> \o @,
                  !.calls = Append(@, <<title, f.translate_languages>>),
                  !.i = @ + 1]

\* Mutant: no inner try; a failure reaches the outer except and ends the
\* request with HTTPException(500).
parse_batch_titles_iteration_NoIsolation(p, f) ==
    LET title == f.titles[f.i]
        parsed == parse_title(p, title, f.translate_languages)
        calls == Append(f.calls, <<title, f.translate_languages>>)
    IN  IF parsed.raised
        THEN Returned(f, calls, HTTPException(500, parsed.message))
        ELSE [f EXCEPT !.results = Append(@, BatchItem(p, title, f.translate_languages)),
                       !.calls = calls,
                       !.i = @ + 1]

\* Mutant: a failed title is parsed a second time before it is recorded.
parse_batch_titles_iteration_Retry(p, f) ==
    LET title == f.titles[f.i]
        call == <<title, f.translate_languages>>
        parsed == parse_title(p, title, f.translate_languages)
    IN  [f EXCEPT !.results = Append(@, BatchItem(p, title, f.translate_languages)),
                  !.calls = IF parsed.raised THEN @ \o <<call, call>> ELSE Append(@, call),
                  !.i = @ + 1]

\* One pass of `for title in request.titles:` in parse_batch_titles.
parse_batch_titles_iteration(p, f) ==
    LET title == f.titles[f.i]
    IN  [f EXCEPT !.results = Append(@, BatchItem(p, title, f.translate_languages)),
                  !.calls = Append(@, <<title, f.translate_languages>>),
                  !.i = @ + 1]

\* return BatchParseResponse(success=True, results=results, total_processed=...)
parse_batch_titles_return(f) ==
    Returned(f, f.calls,
             Ok("BatchParseResponse",
                BatchParseResponse(TRUE, f.results, Len(f.titles))))

\* Mutant: a sample whose parse fails is left out of the list.
get_examples_iteration_SkipFailed(p, f) ==
    LET example == f.titles[f.i]
        entry == ExampleEntry(p, example)
    IN  [f EXCEPT !.results = IF "error" \in DOMAIN entry THEN @ ELSE Append(@, entry),
                  !.calls = Append(@, <<example, FALSE>>),
                  !.i = @ + 1]

\* One pass of `for example in examples:` in get_examples.
get_examples_iteration(p, f) ==
    LET example == f.titles[f.i]
    IN  [f EXCEPT !.results = Append(@, ExampleEntry(p, example)),
                  !.calls = Append(@, <<example, FALSE>>),
                  !.i = @ + 1]

\* return {"examples": results}
get_examples_return(f) ==
    Returned(f, f.calls, Ok("examples", [examples |-> f.results]))

(***************************************************************************)
(* Actions: worker w takes a request, runs a step of its handler, or       *)
(* sends the response.  The parser never changes.                          *)
(***************************************************************************)
Idle(w) == frames[w].pc = "idle"

InLoop(w, endpoint) ==
    /\ frames[w].pc = "loop"
    /\ frames[w].endpoint = endpoint

\* GET /health
GetHealth(w) ==
    /\ Idle(w)
    /\ frames' = [frames EXCEPT
                    ![w] = Returned(NewFrame("/health", <<>>, FALSE), <<>>,
                                    health_check)]
    /\ UNCHANGED parser

\* Mutant: translate_languages is kept in a module-level variable that the
\* request being handled by another worker has overwritten.
GetParse_SharedFlag(w, title, translate_languages) ==
    LET busy == {v \in Workers \ {w} : frames[v].pc # "idle"}
        shared == IF busy = {} THEN translate_languages
                  ELSE frames[CHOOSE v \in busy : TRUE].translate_languages
    IN  /\ Idle(w)
        /\ title # ""
        /\ frames' = [frames EXCEPT
                        ![w] = Returned(NewFrame("/parse", <<title>>, translate_languages),
                                        << <<title, translate_languages>> >>,
                                        parse_torrent_title(parser, title, shared))]
        /\ UNCHANGED parser

\* GET /parse?title=..&translate_languages=..
GetParse(w, title, translate_languages) ==
    /\ Idle(w)
    /\ frames' = [frames EXCEPT
                    ![w] = IF title = ""
                           THEN Returned(NewFrame("/parse", <<title>>, translate_languages),
                                         <<>>, RequestValidationError)
                           ELSE Returned(NewFrame("/parse", <<title>>, translate_languages),
                                         << <<title, translate_languages>> >>,
                                         parse_torrent_title(parser, title,
                                                             translate_languages))]
    /\ UNCHANGED parser

\* GET /parse-simple?title=..&translate_languages=..
GetParseSimple(w, title, translate_languages) ==
    /\ Idle(w)
    /\ frames' = [frames EXCEPT
                    ![w] = IF title = ""
                           THEN Returned(NewFrame("/parse-simple", <<title>>,
                                                  translate_languages),
                                         <<>>, RequestValidationError)
                           ELSE Returned(NewFrame("/parse-simple", <<title>>,
                                                  translate_languages),
                                         << <<title, translate_languages>> >>,
                                         parse_torrent_title_simple(parser, title,
                                                                    translate_languages))]
    /\ UNCHANGED parser

\* GET /examples: results = []
GetExamplesStart(w) ==
    /\ Idle(w)
    /\ frames' = [frames EXCEPT ![w] = NewFrame("/examples", examples, FALSE)]
    /\ UNCHANGED parser

GetExamplesStep(w) ==
    /\ InLoop(w, "/examples")
    /\ frames[w].i <= Len(frames[w].titles)
    /\ frames' = [frames EXCEPT ![w] = get_examples_iteration(parser, @)]
    /\ UNCHANGED parser

GetExamplesReturn(w) ==
    /\ InLoop(w, "/examples")
    /\ frames[w].i > Len(frames[w].titles)
    /\ frames' = [frames EXCEPT ![w] = get_examples_return(@)]
    /\ UNCHANGED parser

\* POST /parse-batch: results = []
PostParseBatchStart(w, titles, translate_languages) ==
    /\ Idle(w)
    /\ frames' = [frames EXCEPT
                    ![w] = NewFrame("/parse-batch", titles, translate_languages)]
    /\ UNCHANGED parser

\* Mutant: `results` is one list shared by the batch requests in progress.
PostParseBatchStep_SharedResults(w) ==
    /\ InLoop(w, "/parse-batch")
    /\ frames[w].i <= Len(frames[w].titles)
    /\ LET f == frames[w]
           item == BatchItem(parser, f.titles[f.i], f.translate_languages)
       IN  frames' = [v \in Workers |->
                        IF v = w THEN parse_batch_titles_iteration(parser, f)
                        ELSE IF frames[v].pc = "loop" /\ frames[v].endpoint = "/parse-batch"
                        THEN [frames[v] EXCEPT !.results = Append(@, item)]
                        ELSE frames[v]]
    /\ UNCHANGED parser

PostParseBatchStep(w) ==
    /\ InLoop(w, "/parse-batch")
    /\ frames[w].i <= Len(frames[w].titles)
    /\ frames' = [frames EXCEPT ![w] = parse_batch_titles_iteration(parser, @)]
    /\ UNCHANGED parser

PostParseBatchReturn(w) ==
    /\ InLoop(w, "/parse-batch")
    /\ frames[w].i > Len(frames[w].titles)
    /\ frames' = [frames EXCEPT ![w] = parse_batch_titles_return(@)]
    /\ UNCHANGED parser

\* The response is sent and the handler's frame is gone.
Deliver(w) ==
    /\ frames[w].pc = "done"
    /\ frames' = [frames EXCEPT ![w] = IdleFrame]
    /\ UNCHANGED parser

(***************************************************************************)
(* Specifications.                                                         *)
(***************************************************************************)
QueryTitles == Titles \cup {""}

BatchTitles(n) == UNION {[1..k -> Titles] : k \in 0..n}

NoRequests == [w \in Workers |-> IdleFrame]

\* The whole service, two requests at a time.
Init ==
    /\ parser \in ParsersOver(RequestKeys, OutcomesConcurrent)
    /\ frames = NoRequests

Next ==
    \E w \in Workers :
        \/ GetHealth(w)
        \/ \E title \in QueryTitles, tl \in BOOLEAN : GetParse(w, title, tl)
        \/ \E title \in QueryTitles, tl \in BOOLEAN : GetParseSimple(w, title, tl)
        \/ GetExamplesStart(w)
        \/ GetExamplesStep(w)
        \/ GetExamplesReturn(w)
        \/ \E titles \in BatchTitles(MaxTitlesConcurrent), tl \in BOOLEAN :
               PostParseBatchStart(w, titles, tl)
        \/ PostParseBatchStep(w)
        \/ PostParseBatchReturn(w)
        \/ Deliver(w)

Spec == Init /\ [][Next]_vars

\* One request at a time, any parser over the request titles.
InitSeq ==
    /\ parser \in ParsersOver(RequestKeys, Outcomes)
    /\ frames = NoRequests

NextSeq ==
    \/ GetHealth("w1")
    \/ \E title \in QueryTitles, tl \in BOOLEAN : GetParse("w1", title, tl)
    \/ \E title \in QueryTitles, tl \in BOOLEAN : GetParseSimple("w1", title, tl)
    \/ \E titles \in BatchTitles(MaxTitles), tl \in BOOLEAN :
           PostParseBatchStart("w1", titles, tl)
    \/ PostParseBatchStep("w1")
    \/ PostParseBatchReturn("w1")
    \/ Deliver("w1")

SpecSeq == InitSeq /\ [][NextSeq]_vars

\* GET /examples alone, any parser over the sample titles.
InitExamples ==
    /\ parser \in ParsersOver(ExampleKeys, Outcomes)
    /\ frames = NoRequests

NextExamples ==
    \/ GetExamplesStart("w1")
    \/ GetExamplesStep("w1")
    \/ GetExamplesReturn("w1")
    \/ Deliver("w1")

SpecExamples == InitExamples /\ [][NextExamples]_vars

(***************************************************************************)
(* Properties.                                                             *)
(***************************************************************************)
Range(seq) == {seq[n] : n \in DOMAIN seq}

Done(w, endpoint) ==
    /\ frames[w].pc = "done"
    /\ frames[w].endpoint = endpoint

\* What the parser does for the n-th title of the request of frame f.
OutcomeAt(f, n) == parse_title(parser, f.titles[n], f.translate_languages)

Failing(f) == {n \in DOMAIN f.titles : OutcomeAt(f, n).raised}

\* C1: a batch response has one result per title and total_processed equal
\* to the number of titles, whichever items fail (also for no titles).
C1_BatchLengths ==
    \A w \in Workers :
        Done(w, "/parse-batch") =>
            LET r == Response(frames[w])
            IN  /\ r.status_code = 200
                /\ r.shape = "BatchParseResponse"
                /\ Len(r.body.results) = Len(frames[w].titles)
                /\ r.body.total_processed = Len(frames[w].titles)

\* A finished batch of at least two titles, some failing and some not.
C1_Witness ==
    /\ Done("w1", "/parse-batch")
    /\ Len(frames["w1"].titles) >= 2
    /\ Failing(frames["w1"]) # {}
    /\ Failing(frames["w1"]) # DOMAIN frames["w1"].titles
    /\ Len(Response(frames["w1"]).body.results) = Len(frames["w1"].titles)

\* C2: results[i].original_title is titles[i] for every index i of a batch.
C2_OrderPreserved ==
    \A w \in Workers :
        Done(w, "/parse-batch") =>
            LET r == Response(frames[w])
            IN  /\ r.shape = "BatchParseResponse"
                /\ \A n \in DOMAIN frames[w].titles :
                       /\ n \in DOMAIN r.body.results
                       /\ r.body.results[n].original_title = frames[w].titles[n]

\* A finished batch with a repeated title around a different one, one of
\* them failing.
C2_Witness ==
    /\ Done("w1", "/parse-batch")
    /\ Len(frames["w1"].titles) = 3
    /\ frames["w1"].titles[1] = frames["w1"].titles[3]
    /\ frames["w1"].titles[1] # frames["w1"].titles[2]
    /\ Failing(frames["w1"]) # {}
    /\ Response(frames["w1"]).body.results[2].original_title = frames["w1"].titles[2]

\* C3: in a batch, results[i].success is false exactly when the parse of
\* titles[i] fails, every title gets its result whatever failed before it,
\* and the batch-level success flag is true.
C3_FailureIsolation ==
    \A w \in Workers :
        Done(w, "/parse-batch") =>
            LET r == Response(frames[w])
            IN  /\ r.status_code = 200
                /\ r.shape = "BatchParseResponse"
                /\ r.body.success
                /\ \A n \in DOMAIN frames[w].titles :
                       /\ n \in DOMAIN r.body.results
                       /\ r.body.results[n].success = ~OutcomeAt(frames[w], n).raised

\* A finished batch of three titles whose second fails and whose first and
\* last succeed.
C3_Witness ==
    /\ Done("w1", "/parse-batch")
    /\ Len(frames["w1"].titles) = 3
    /\ Failing(frames["w1"]) = {2}
    /\ Response(frames["w1"]).body.success
    /\ ~Response(frames["w1"]).body.results[2].success
    /\ Response(frames["w1"]).body.results[3].success

\* The TitleParseResults worker w has produced: the items of its batch so
\* far, or the body of its /parse response.
ResultsOf(w) ==
    IF frames[w].endpoint = "/parse-batch" THEN Range(frames[w].results)
    ELSE IF Done(w, "/parse") /\ Response(frames[w]).shape = "ParseResponse"
    THEN {Response(frames[w]).body}
    ELSE {}

ExactlyOne(r) ==
    /\ r.success => r.data # None /\ r.error = None
    /\ ~r.success => r.error # None /\ r.data = None

\* C4 as stated: every TitleParseResult has data and no error when success
\* is true, and error and no data when success is false, for every value
\* the parser returns (an empty mapping and null included) or raises.
C4_Original == \A w \in Workers : \A r \in ResultsOf(w) : ExactlyOne(r)

\* C4 amended: the same, except that when the parser returns null the
\* result has success true with both data and error absent.
C4_ExactlyOneUnlessNull ==
    \A w \in Workers : \A r \in ResultsOf(w) :
        LET o == parse_title(parser, r.original_title, frames[w].translate_languages)
        IN  IF ~o.raised /\ o.value = None
            THEN r.success /\ r.data = None /\ r.error = None
            ELSE ExactlyOne(r)

\* A finished batch holding a result for an empty mapping and one for a
\* failure.
C4_Witness ==
    /\ Done("w1", "/parse-batch")
    /\ \E r \in ResultsOf("w1") : r.success /\ r.data = Some({}) /\ r.error = None
    /\ \E r \in ResultsOf("w1") : ~r.success /\ r.error # None /\ r.data = None

\* C5: GET /parse answers a parser failure with status 200 and a
\* ParseResponse with success false, error the failure's message and
\* original_title the title sent; it never answers with a request error.
C5_ParseStructured ==
    \A w \in Workers :
        (Done(w, "/parse") /\ frames[w].titles[1] # "") =>
            LET r == Response(frames[w])
                o == OutcomeAt(frames[w], 1)
            IN  /\ r.status_code = 200
                /\ r.shape = "ParseResponse"
                /\ r.body.original_title = frames[w].titles[1]
                /\ o.raised => /\ ~r.body.success
                                /\ r.body.error = Some(o.message)

\* A finished GET /parse whose parse raised "boom".
C5_Witness ==
    /\ Done("w1", "/parse")
    /\ frames["w1"].titles[1] # ""
    /\ OutcomeAt(frames["w1"], 1) = Raises("boom")
    /\ Response(frames["w1"]).body.error = Some("boom")

\* C6: GET /parse-simple answers with the parser's raw value when the parse
\* succeeds, and with a 500 error carrying the failure's message when it
\* fails, never with a structured success=false result.
C6_SimplePropagates ==
    \A w \in Workers :
        (Done(w, "/parse-simple") /\ frames[w].titles[1] # "") =>
            LET r == Response(frames[w])
                o == OutcomeAt(frames[w], 1)
            IN  IF o.raised
                THEN /\ r.status_code = 500
                     /\ r.shape = "HTTPException"
                     /\ r.body.detail = o.message
                ELSE /\ r.status_code = 200
                     /\ r.shape = "raw"
                     /\ r.body = o.value

\* A finished GET /parse-simple whose parse raised "boom".
C6_Witness ==
    /\ Done("w1", "/parse-simple")
    /\ frames["w1"].titles[1] # ""
    /\ OutcomeAt(frames["w1"], 1) = Raises("boom")
    /\ Response(frames["w1"]).status_code = 500

\* C7: GET /examples returns one entry per sample title, in the sample
\* order; each entry has its title and exactly one of parsed and error,
\* decided by the parse of that sample alone.
C7_ExamplesFixed ==
    \A w \in Workers :
        Done(w, "/examples") =>
            LET r == Response(frames[w])
            IN  /\ r.status_code = 200
                /\ Len(r.body.examples) = Len(examples)
                /\ \A n \in DOMAIN examples :
                       LET e == r.body.examples[n]
                           o == parse_title(parser, examples[n], FALSE)
                       IN  /\ e.title = examples[n]
                           /\ DOMAIN e \in {{"title", "parsed"}, {"title", "error"}}
                           /\ ("error" \in DOMAIN e) = o.raised
                           /\ o.raised => e.error = o.message
                           /\ ~o.raised => e.parsed = o.value

\* A finished GET /examples in which only the second sample failed.
C7_Witness ==
    /\ Done("w1", "/examples")
    /\ {n \in DOMAIN examples : parse_title(parser, examples[n], FALSE).raised} = {2}
    /\ Len(Response(frames["w1"]).body.examples) = Len(examples)
    /\ "error" \in DOMAIN Response(frames["w1"]).body.examples[2]

\* C8: two GET /parse requests with the same title and flag get identical
\* responses, whatever was served between them, and each of them invoked
\* the parser itself.
C8_ParseIdempotent ==
    \A v, w \in Workers :
        ( /\ Done(v, "/parse")
          /\ Done(w, "/parse")
          /\ frames[v].titles = frames[w].titles
          /\ frames[v].translate_languages = frames[w].translate_languages
          /\ frames[v].titles[1] # "" ) =>
            /\ Response(frames[v]) = Response(frames[w])
            /\ frames[v].calls = << <<frames[v].titles[1], frames[v].translate_languages>> >>

\* Two finished GET /parse requests for the same title and flag, under a
\* parser for which the flag changes the outcome.
C8_Witness ==
    /\ Done("w1", "/parse")
    /\ Done("w2", "/parse")
    /\ frames["w1"].titles = frames["w2"].titles
    /\ frames["w1"].translate_languages = frames["w2"].translate_languages
    /\ frames["w1"].titles[1] # ""
    /\ parse_title(parser, frames["w1"].titles[1], TRUE)
          # parse_title(parser, frames["w1"].titles[1], FALSE)
    /\ Response(frames["w1"]) = Response(frames["w2"])

\* C9: a batch invokes the parser once per title, in input order, with that
\* title and the request's flag: after n passes of the loop the invocations
\* are those for the first n titles, and at the end there are len(titles).
C9_OneCallPerTitle ==
    \A w \in Workers :
        frames[w].endpoint = "/parse-batch" =>
            LET f == frames[w]
            IN  /\ Len(f.calls) = f.i - 1
                /\ \A n \in DOMAIN f.calls :
                       f.calls[n] = <<f.titles[n], f.translate_languages>>
                /\ f.pc = "done" => Len(f.calls) = Len(f.titles)

\* A finished batch with a repeated title whose parse fails.
C9_Witness ==
    /\ Done("w1", "/parse-batch")
    /\ Len(frames["w1"].titles) = 3
    /\ frames["w1"].titles[1] = frames["w1"].titles[2]
    /\ 1 \in Failing(frames["w1"])
    /\ Len(frames["w1"].calls) = 3

\* The response to a request handled with no other request around.
IsolatedResponse(p, endpoint, titles, translate_languages) ==
    IF endpoint = "/health" THEN health_check
    ELSE IF endpoint = "/examples"
    THEN Ok("examples", [examples |-> [n \in DOMAIN examples |-> ExampleEntry(p, examples[n])]])
    ELSE IF endpoint = "/parse-batch"
    THEN Ok("BatchParseResponse",
            BatchParseResponse(TRUE,
                               [n \in DOMAIN titles |->
                                   BatchItem(p, titles[n], translate_languages)],
                               Len(titles)))
    ELSE IF titles[1] = "" THEN RequestValidationError
    ELSE IF endpoint = "/parse" THEN parse_torrent_title(p, titles[1], translate_languages)
    ELSE parse_torrent_title_simple(p, titles[1], translate_languages)

\* C10: under any interleaving of requests, each response is the one the
\* request gets when handled alone, and the results a batch has collected
\* are those of its own titles, in order.
C10_RequestIndependence ==
    \A w \in Workers :
        LET f == frames[w]
        IN  /\ f.pc = "done" =>
                   Response(f) = IsolatedResponse(parser, f.endpoint, f.titles,
                                                  f.translate_languages)
            /\ f.endpoint = "/parse-batch" =>
                   /\ Len(f.results) = f.i - 1
                   /\ \A n \in DOMAIN f.results :
                          f.results[n] = BatchItem(parser, f.titles[n], f.translate_languages)

\* Two batches finished side by side, for different titles, one of them
\* with a failed item and the other without.
C10_Witness ==
    /\ Done("w1", "/parse-batch")
    /\ Done("w2", "/parse-batch")
    /\ Len(frames["w1"].titles) = 2
    /\ Len(frames["w2"].titles) = 2
    /\ Range(frames["w1"].titles) \cap Range(frames["w2"].titles) = {}
    /\ Failing(frames["w1"]) # {}
    /\ Failing(frames["w2"]) = {}
    /\ Len(Response(frames["w1"]).body.results) = 2

====
